---- MODULE Spec2Model ----
(***************************************************************************)
(* Model of src/app.py: the Flask front end of the image classifier.       *)
(*                                                                         *)
(*   - validate_image (lines 35-54) as operators on character sequences;   *)
(*   - predictRoute (lines 132-204) as three steps per request, cut at     *)
(*     the two places where a request touches state shared with other      *)
(*     requests: the staging slot written by decodeImage and read by       *)
(*     classifier.predict();                                               *)
(*   - health_check (lines 106-114).                                       *)
(*                                                                         *)
(* A Python str is a sequence of one-character strings.  A Python value    *)
(* (JSON body, 'image' value, classifier result) is a record tagged by     *)
(* its type in field t.                                                    *)
(***************************************************************************)
EXTENDS Integers, Sequences, FiniteSets, TLC

\* ------------------------------------------------------------------ bounds
NumWorkers == 2       \* worker threads, each handling one request at a time
MaxResultLen == 2     \* longest sequence the classifier returns
MaxCodecLen == 4      \* longest raw string given to validate_image in SpecCodec
MaxBytes == 2         \* longest byte string encoded in SpecCodec

\* ------------------------------------------------------- program constants
MinImageLen == 100    \* len(image_base64) < 100

\* ------------------------------------------------------ character sequences
Rep(c, n) == [i \in 1..n |-> c]

Min(S) == CHOOSE i \in S : \A j \in S : i <= j

\* the positions of c in s at or after position i
Positions(s, c, i) == {j \in i..Len(s) : s[j] = c}

\* str.find from position i: the first index >= i holding c, 0 if none
IndexOf(s, c, i) ==
    IF Positions(s, c, i) = {} THEN 0 ELSE Min(Positions(s, c, i))

Contains(s, c) == IndexOf(s, c, 1) /= 0

\* s.split(',')[1]: the segment between the first and the second comma
\* (to the end when there is no second comma).  Called only when ',' in s.
SplitSecond(s) ==
    LET a == IndexOf(s, ",", 1)
        b == IndexOf(s, ",", a + 1)
    IN  IF b = 0 THEN SubSeq(s, a + 1, Len(s)) ELSE SubSeq(s, a + 1, b - 1)

\* lines 39-40
StripPrefix(s) == IF Contains(s, ",") THEN SplitSecond(s) ELSE s

\* lines 43-45, with the guard of line 44 left out
PadCorrectAlways(s) == s \o Rep("=", 4 - (Len(s) % 4))

\* lines 43-45
PadCorrect(s) ==
    LET padding == 4 - (Len(s) % 4)
    IN  IF padding /= 4 THEN s \o Rep("=", padding) ELSE s

\* ------------------------------------------------------------------ base64
B64Chars ==
    << "A","B","C","D","E","F","G","H","I","J","K","L","M","N","O","P",
       "Q","R","S","T","U","V","W","X","Y","Z","a","b","c","d","e","f",
       "g","h","i","j","k","l","m","n","o","p","q","r","s","t","u","v",
       "w","x","y","z","0","1","2","3","4","5","6","7","8","9","+","/" >>

B64Set == {B64Chars[i] : i \in 1..64}

B64Val == [c \in B64Set |-> (CHOOSE i \in 1..64 : B64Chars[i] = c) - 1]

\* characters outside ASCII: b64decode(str) raises ValueError on them
NonAscii == {"U+00E9"}

IsData(c) == c \in B64Set

\* the number of alphabet characters of s before position i
DataBefore(s, i) == Len(SelectSeq(SubSeq(s, 1, i - 1), IsData))

\* binascii.a2b_base64 in its default non-strict mode, as base64.b64decode
\* calls it.  The scan keeps quad_pos (alphabet characters seen, modulo 4)
\* and pads (the '=' seen since the last alphabet character); characters
\* outside the alphabet are skipped; a '=' with quad_pos >= 2 and
\* quad_pos + pads >= 4 (itself counted) ends the parse; input that ends
\* with quad_pos /= 0 is an error.  Here the scan is written in closed form:
\* stops holds the '=' at which the scan would end, the first one ends it.
A2B(s) ==
    LET eqs == Positions(s, "=", 1)
        quad_pos(i) == DataBefore(s, i) % 4
        pads(i) == Cardinality({j \in eqs : j <= i /\ DataBefore(s, j) = DataBefore(s, i)})
        stops == {i \in eqs : quad_pos(i) >= 2 /\ quad_pos(i) + pads(i) >= 4}
        end == IF stops = {} THEN Len(s) + 1 ELSE Min(stops)
        d == SelectSeq(SubSeq(s, 1, end - 1), IsData)
        v(k) == B64Val[d[k]]
        n == (Len(d) \div 4) * 3 + (IF Len(d) % 4 = 0 THEN 0 ELSE (Len(d) % 4) - 1)
        byte(j) ==
            LET g == 4 * ((j - 1) \div 3)
            IN  CASE (j - 1) % 3 = 0 -> v(g + 1) * 4 + (v(g + 2) \div 16)
                  [] (j - 1) % 3 = 1 -> (v(g + 2) % 16) * 16 + (v(g + 3) \div 4)
                  [] (j - 1) % 3 = 2 -> (v(g + 3) % 4) * 64 + v(g + 4)
    IN  IF stops = {} /\ Len(d) % 4 /= 0
        THEN [ok |-> FALSE, error |-> "binascii.Error", bytes |-> << >>]
        ELSE [ok |-> TRUE, error |-> "", bytes |-> [j \in 1..n |-> byte(j)]]

\* base64.b64decode(s) of line 48
b64decode(s) ==
    IF \E i \in 1..Len(s) : s[i] \in NonAscii
    THEN [ok |-> FALSE, error |-> "ValueError", bytes |-> << >>]
    ELSE A2B(s)

\* Image.open(BytesIO(image_data)) and image.verify() of lines 49-50: the
\* container check, here the JPEG start-of-image marker FF D8 FF.
ImageVerify(bytes) ==
    /\ Len(bytes) >= 3
    /\ SubSeq(bytes, 1, 3) = << 255, 216, 255 >>

\* ---------------------------------------------------------- Python values
PyNone == [t |-> "none"]
PyInt(n) == [t |-> "int", v |-> n]
\* a str in short form: the data-URL prefix if dataUrl, head, fill times
\* "A", tail
PyStr(du, h, n, tl) == [t |-> "str", dataUrl |-> du, head |-> h, fill |-> n, tail |-> tl]
Text(h) == PyStr(FALSE, h, 0, << >>)
PyList(xs) == [t |-> "list", items |-> xs]
PyTuple(xs) == [t |-> "tuple", items |-> xs]
PyDict(f) == [t |-> "dict", fields |-> f]
\* a request body that json.loads rejects (an empty body included)
Unparsable == [t |-> "unparsable"]

DataUrl ==
    << "d","a","t","a",":","i","m","a","g","e","/","j","p","e","g",";",
       "b","a","s","e","6","4","," >>

Chars(x) ==
    (IF x.dataUrl THEN DataUrl ELSE << >>) \o x.head \o Rep("A", x.fill) \o x.tail

\* len(x); Sized(x) is false where len raises TypeError
Sized(x) == x.t \in {"str", "list", "tuple", "dict"}

PyLen(x) ==
    CASE x.t = "str" -> Len(Chars(x))
      [] x.t \in {"list", "tuple"} -> Len(x.items)
      [] x.t = "dict" -> Cardinality(DOMAIN x.fields)

\* bool(x)
Truthy(x) ==
    CASE x.t = "none" -> FALSE
      [] x.t = "int" -> x.v /= 0
      [] OTHER -> PyLen(x) > 0

\* ----------------------------------------------------------- validate_image
Valid(msg) == [is_valid |-> TRUE, message |-> msg]
Invalid(msg) == [is_valid |-> FALSE, message |-> msg]

\* line 54 for an exception of line 48
DecodeFailure(image_data) ==
    IF image_data.error = "ValueError"
    THEN Invalid("Invalid image data: ValueError")
    ELSE Invalid("Invalid image data: binascii.Error")

\* lines 35-54.  Every exception is caught at line 53.  A value that is not
\* a str raises inside the try: AttributeError at split or TypeError at
\* b64decode.
validate_image(x) ==
    IF x.t /= "str" THEN Invalid("Invalid image data: TypeError")
    ELSE LET base64_string == PadCorrect(StripPrefix(Chars(x)))
             image_data == b64decode(base64_string)
         IN  IF ~image_data.ok THEN DecodeFailure(image_data)
             ELSE IF ~ImageVerify(image_data.bytes)
                  THEN Invalid("Invalid image data: UnidentifiedImageError")
                  ELSE Valid("Valid image")

\* ------------------------------------------------------------- envelopes
\* jsonify({...}), status: a response is its status and its JSON object
Response(status, body) == [status |-> status, body |-> body]
NoResponse == Response(0, [pending |-> TRUE])

\* an error envelope that also carries a data field
ErrorEnvelopeWithData(msg) == [success |-> FALSE, error |-> msg, data |-> PyNone]

\* lines 138-141, 145-148, 154-157, 162-165, 170-173, 201-204
ErrorEnvelope(msg) == [success |-> FALSE, error |-> msg]

\* isinstance(result, list) taken as "is any sequence"
IsListOrTuple(result) == result.t \in {"list", "tuple"}

\* isinstance(result, list) of lines 189 and 193
IsList(result) == result.t = "list"

\* line 189
NormalizeData(result) ==
    IF IsList(result) /\ PyLen(result) > 0 THEN result.items[1] ELSE result

\* line 193
HasProcessedImage(result) ==
    IsList(result) /\ PyLen(result) > 1 /\ Truthy(result.items[2])

\* lines 184-190 with the model_version entry left out
SuccessEnvelopeNoVersion(result) ==
    [success |-> TRUE, message |-> "Image analyzed successfully",
     timestamp |-> "utcnow", data |-> NormalizeData(result)]

\* lines 184-190
SuccessEnvelope(result) ==
    [success |-> TRUE, message |-> "Image analyzed successfully",
     timestamp |-> "utcnow", model_version |-> "1.0.0",
     data |-> NormalizeData(result)]

\* lines 184-197
SuccessResponse(result) ==
    Response(200,
        IF HasProcessedImage(result)
        THEN SuccessEnvelope(result) @@ ("processed_image" :> result.items[2])
        ELSE SuccessEnvelope(result))

\* lines 199-204: except Exception
InternalError(msg) == Response(500, ErrorEnvelope(msg))

\* ------------------------------------------------- predictRoute, lines 135-173
ImageWord == << "i", "m", "a", "g", "e" >>

IsSubSeq(sub, s) ==
    \E i \in 1..(Len(s) - Len(sub) + 1) : SubSeq(s, i, i + Len(sub) - 1) = sub

\* 'image' in data (line 153) where the operator is defined: substring of a
\* str, member of a list, key of a dict
HasImage(data) ==
    CASE data.t = "str" -> IsSubSeq(ImageWord, Chars(data))
      [] data.t = "list" ->
            \E i \in 1..Len(data.items) :
                /\ data.items[i].t = "str"
                /\ Chars(data.items[i]) = ImageWord
      [] data.t = "dict" -> "image" \in DOMAIN data.fields

\* the outcome of lines 135-173: the response returned, or the hand-over to
\* staging.  inspected: body inspection began (line 144 reached);
\* validated: validate_image was called; raised: an exception reached the
\* handler of line 199.
Answer(resp, insp, val, exc) ==
    [next |-> "done", response |-> resp, inspected |-> insp,
     validated |-> val, raised |-> exc]
Proceed ==
    [next |-> "stage", response |-> NoResponse, inspected |-> TRUE,
     validated |-> TRUE, raised |-> FALSE]

\* line 161 with 10 for 100
TooShortTen(image_base64) == PyLen(image_base64) < 10

\* len(image_base64) < 100 of line 161
TooShort(image_base64) == PyLen(image_base64) < MinImageLen

\* lines 143-173
Inspect(request) ==
    IF ~request.is_json
    THEN Answer(Response(400, ErrorEnvelope("Request must be JSON")),
                TRUE, FALSE, FALSE)
    ELSE LET data == request.json IN
    IF data.t = "unparsable"
    THEN \* get_json() raises BadRequest, an Exception
         Answer(InternalError("Internal server error: 400 Bad Request"),
                TRUE, FALSE, TRUE)
    ELSE IF data.t \in {"none", "int"}
    THEN \* 'image' not in data raises TypeError
         Answer(InternalError("Internal server error: argument is not iterable"),
                TRUE, FALSE, TRUE)
    ELSE IF ~HasImage(data)
    THEN Answer(Response(400, ErrorEnvelope(
                "No image data provided. Please include 'image' field in request.")),
                TRUE, FALSE, FALSE)
    ELSE IF data.t /= "dict"
    THEN \* data['image'] raises TypeError on a str or a list
         Answer(InternalError("Internal server error: indices must be integers"),
                TRUE, FALSE, TRUE)
    ELSE LET image_base64 == data.fields.image IN
    IF ~Truthy(image_base64)
    THEN Answer(Response(400, ErrorEnvelope("Image data too short or empty")),
                TRUE, FALSE, FALSE)
    ELSE IF ~Sized(image_base64)
    THEN \* len(image_base64) raises TypeError
         Answer(InternalError("Internal server error: object has no len()"),
                TRUE, FALSE, TRUE)
    ELSE IF TooShort(image_base64)
    THEN Answer(Response(400, ErrorEnvelope("Image data too short or empty")),
                TRUE, FALSE, FALSE)
    ELSE LET v == validate_image(image_base64) IN
    IF ~v.is_valid
    THEN Answer(Response(400, ErrorEnvelope(v.message)), TRUE, TRUE, FALSE)
    ELSE Proceed

Unavailable ==
    Answer(Response(503, ErrorEnvelope(
           "Prediction model not available. Please check if the model is properly loaded.")),
           FALSE, FALSE, FALSE)

\* the availability test of line 137 made after the body checks
RouteBodyFirst(cls, request) ==
    LET o == Inspect(request)
    IN  IF o.next = "stage" /\ cls = "None" THEN Unavailable ELSE o

\* lines 135-173
Route(cls, request) ==
    IF cls = "None" THEN Unavailable ELSE Inspect(request)

\* ------------------------------------------------------------------ inputs
JpegHead == << "/", "9", "j", "/" >>     \* base64 of FF D8 FF
ZeroHead == << "A", "A", "A", "A" >>     \* base64 of 00 00 00

\* fills that put the length of head + fill just below MinImageLen, at it,
\* and at the two lengths above it: the lengths modulo 4 are 3, 0, 1, 2
Fills == {MinImageLen - 5, MinImageLen - 4, MinImageLen - 3, MinImageLen - 2}

StrImages ==
    {PyStr(FALSE, JpegHead, n, << >>) : n \in Fills}
    \cup {PyStr(TRUE, JpegHead, MinImageLen - 5, << >>),
          PyStr(TRUE, JpegHead, MinImageLen - 4, << ",", "x" >>),
          PyStr(FALSE, JpegHead, MinImageLen - 4, << ",", "x" >>),
          PyStr(FALSE, ZeroHead, MinImageLen - 4, << >>),
          PyStr(FALSE, JpegHead, MinImageLen - 4, << "U+00E9" >>),
          PyStr(FALSE, JpegHead, 8, << >>),
          Text(<< >>)}

OtherImages ==
    {PyNone, PyInt(0), PyInt(7), PyList(<< >>), PyList(<< PyInt(1) >>),
     PyList(Rep(PyInt(1), MinImageLen))}

Images == StrImages \cup OtherImages

Bodies ==
    {Unparsable, PyNone, PyInt(7), Text(ImageWord), Text(<< "a", "b", "c" >>),
     PyList(<< >>), PyList(<< Text(ImageWord) >>),
     PyDict([name |-> Text(<< "a", "b", "c" >>)])}
    \cup {PyDict([image |-> v]) : v \in Images}

Requests ==
    {[is_json |-> FALSE, json |-> Unparsable]}
    \cup {[is_json |-> TRUE, json |-> b] : b \in Bodies}

\* what predict() may return: a bare value, or a list or a tuple whose first
\* element is the value
Label == PyDict([label |-> Text(<< "X" >>)])
Artifact == Text(<< "p", "n", "g" >>)
Items ==
    {xs \in UNION {[1..n -> {Label, Artifact, Text(<< >>)}] : n \in 0..MaxResultLen} :
        /\ Len(xs) >= 1 => xs[1] = Label
        /\ \A i \in 2..Len(xs) : xs[i] /= Label
        /\ \A i \in 3..Len(xs) : xs[i] = Artifact}
Results ==
    {Label, PyNone}
    \cup {PyList(xs) : xs \in Items}
    \cup {PyTuple(xs) : xs \in {ys \in Items : Len(ys) = MaxResultLen /\ Truthy(ys[2])}}

\* ------------------------------------------- inputs of validate_image alone
\* base64.b64encode: the canonical padded encoding a client starts from
B64Encode(b) ==
    LET n == Len(b)
        at(j) == IF j <= n THEN b[j] ELSE 0
        char(k) ==
            LET g == 3 * ((k - 1) \div 4)
            IN  CASE (k - 1) % 4 = 0 -> B64Chars[(at(g + 1) \div 4) + 1]
                  [] (k - 1) % 4 = 1 ->
                        B64Chars[(at(g + 1) % 4) * 16 + (at(g + 2) \div 16) + 1]
                  [] (k - 1) % 4 = 2 ->
                        IF g + 2 > n THEN "="
                        ELSE B64Chars[(at(g + 2) % 16) * 4 + (at(g + 3) \div 64) + 1]
                  [] (k - 1) % 4 = 3 ->
                        IF g + 3 > n THEN "=" ELSE B64Chars[(at(g + 3) % 64) + 1]
    IN  [k \in 1..(4 * ((n + 2) \div 3)) |-> char(k)]

\* s.rstrip('='): a caller that omits the trailing padding
StripPadding(s) == SubSeq(s, 1, Len(s) - Cardinality({i \in 1..Len(s) :
                        \A j \in i..Len(s) : s[j] = "="}))

SeqsUpTo(S, n) == UNION {[1..k -> S] : k \in 0..n}

CodecAlphabet == {"/", "9", "j", "A", "=", ","}
ByteValues == {0, 216, 255}

CodecInputs ==
    {[given |-> s, isEncoded |-> FALSE, encoded |-> << >>, bytes |-> << >>] :
        s \in SeqsUpTo(CodecAlphabet, MaxCodecLen)}
    \cup {[given |-> p \o StripPadding(B64Encode(b)), isEncoded |-> TRUE,
           encoded |-> B64Encode(b), bytes |-> b] :
        p \in {<< >>, DataUrl}, b \in SeqsUpTo(ByteValues, MaxBytes)}

\* Route tabulated over the inputs, so that each request is validated once
RouteNone == {<< req, Route("None", req) >> : req \in Requests}
RouteLoaded == {<< req, Route("loaded", req) >> : req \in Requests}

\* ------------------------------------------------------------------- state
VARIABLES
    classifier,   \* clApp.classifier: "None" or "loaded"
    slot,         \* what inputImage.jpg was last written from
    pc,           \* per worker: "idle", "stage" (before line 177), "predict" (before line 181)
    request,      \* per worker: the request being handled
    trace,        \* per worker: the stages run so far, in order
    stageArg,     \* per worker: the argument handed to decodeImage
    last,         \* the exchange completed last
    codec         \* SpecCodec: one run of validate_image, step by step

vars == << classifier, slot, pc, request, trace, stageArg, last, codec >>

Workers == 1..NumWorkers
Unset == [t |-> "unset"]
NoRequest == [is_json |-> FALSE, json |-> Unset]
CodecOff == [pc |-> "off"]
CodecStart(i) ==
    [pc |-> "strip", input |-> i, stripped |-> << >>, base64_string |-> i.given,
     image_data |-> [ok |-> FALSE, error |-> "", bytes |-> << >>],
     ret |-> Invalid("")]

\* a completed exchange: the request, the response, and what ran for it.
\* raised: where an exception reached the handler of line 199.
Exchange(route, req, resp, tr, exc, arg, read, res) ==
    [route |-> route, request |-> req, response |-> resp, trace |-> tr,
     raised |-> exc, stageArg |-> arg, readImage |-> read, result |-> res]
NoExchange ==
    Exchange("none", NoRequest, NoResponse, << >>, "none", Unset, Unset, Unset)

Init ==
    /\ classifier \in {"None", "loaded"}
    /\ slot = Unset
    /\ pc = [w \in Workers |-> "idle"]
    /\ request = [w \in Workers |-> NoRequest]
    /\ trace = [w \in Workers |-> << >>]
    /\ stageArg = [w \in Workers |-> Unset]
    /\ last = NoExchange
    /\ codec = CodecOff

\* ----------------------------------------------------------------- actions
\* lines 109-114
HealthResponse(cls) ==
    Response(200, [status |-> "healthy", service |-> "DeepVision AI",
                   timestamp |-> "utcnow", model_loaded |-> cls /= "None"])

\* health_check, lines 106-114
Health ==
    /\ last' = Exchange("/health", NoRequest, HealthResponse(classifier),
                        << >>, "none", Unset, Unset, Unset)
    /\ UNCHANGED << classifier, slot, pc, request, trace, stageArg, codec >>

\* the worker goes back to waiting for a request
Release(w) ==
    /\ pc' = [pc EXCEPT ![w] = "idle"]
    /\ request' = [request EXCEPT ![w] = NoRequest]
    /\ trace' = [trace EXCEPT ![w] = << >>]
    /\ stageArg' = [stageArg EXCEPT ![w] = Unset]

ReceiveTrace(o) ==
    (IF o.inspected THEN << "validate" >> ELSE << >>)
    \o (IF o.validated THEN << "validate_image" >> ELSE << >>)

\* predictRoute from its entry to the return of line 141, 148, 157, 165,
\* 173 or 204, or to the call of line 177
Receive(w) ==
    /\ pc[w] = "idle"
    /\ \E pr \in (IF classifier = "None" THEN RouteNone ELSE RouteLoaded) :
        LET req == pr[1]
            o == pr[2] IN
        IF o.next = "done"
        THEN /\ last' = Exchange("/predict", req, o.response, ReceiveTrace(o),
                                 IF o.raised THEN "validation" ELSE "none",
                                 Unset, Unset, Unset)
             /\ UNCHANGED << pc, request, trace, stageArg >>
        ELSE /\ pc' = [pc EXCEPT ![w] = "stage"]
             /\ request' = [request EXCEPT ![w] = req]
             /\ trace' = [trace EXCEPT ![w] = ReceiveTrace(o)]
             /\ UNCHANGED << stageArg, last >>
    /\ UNCHANGED << classifier, slot, codec >>

\* the first argument of decodeImage at line 177
StagingInput(image_base64) == image_base64

\* cnnClassifier.utils.common.decodeImage: writes what it is handed to the
\* slot, or fails with an I/O error
decodeImage(imgstring, ioError) ==
    IF ioError THEN [raised |-> TRUE, written |-> Unset]
    ELSE [raised |-> FALSE, written |-> imgstring]

\* lines 176-177, and lines 199-204 when decodeImage raises
Stage(w) ==
    /\ pc[w] = "stage"
    /\ \E ioError \in BOOLEAN :
        LET arg == StagingInput(request[w].json.fields.image)
            wr == decodeImage(arg, ioError)
        IN  IF wr.raised
            THEN /\ last' = Exchange("/predict", request[w],
                                InternalError("Internal server error: OSError"),
                                Append(trace[w], "decodeImage"), "staging",
                                arg, Unset, Unset)
                 /\ Release(w)
                 /\ slot' = slot
            ELSE /\ pc' = [pc EXCEPT ![w] = "predict"]
                 /\ slot' = wr.written
                 /\ stageArg' = [stageArg EXCEPT ![w] = arg]
                 /\ trace' = [trace EXCEPT ![w] = Append(@, "decodeImage")]
                 /\ UNCHANGED << request, last >>
    /\ UNCHANGED << classifier, codec >>

\* cnnClassifier.pipeline.prediction.PredictionPipeline.predict: classifies
\* the file named at construction (line 26), as it stands when it is called
PredictInput(staged) == staged

\* lines 181-197, and lines 199-204 when predict() raises
Predict(w) ==
    /\ pc[w] = "predict"
    /\ \/ last' = Exchange("/predict", request[w],
                      InternalError("Internal server error: predict failed"),
                      Append(trace[w], "predict"), "inference",
                      stageArg[w], PredictInput(slot), Unset)
       \/ \E res \in Results :
            last' = Exchange("/predict", request[w], SuccessResponse(res),
                      trace[w] \o << "predict", "normalize" >>, "none",
                      stageArg[w], PredictInput(slot), res)
    /\ Release(w)
    /\ UNCHANGED << classifier, slot, codec >>

Next ==
    \/ Health
    \/ \E w \in Workers : Receive(w)
    \/ \E w \in Workers : Stage(w)
    \/ \E w \in Workers : Predict(w)

Spec == Init /\ [][Next]_vars

\* ------------------------------------- validate_image alone, step by step
InitCodec ==
    /\ classifier = "loaded"
    /\ slot = Unset
    /\ pc = [w \in Workers |-> "idle"]
    /\ request = [w \in Workers |-> NoRequest]
    /\ trace = [w \in Workers |-> << >>]
    /\ stageArg = [w \in Workers |-> Unset]
    /\ last = NoExchange
    /\ \E i \in CodecInputs : codec = CodecStart(i)

main == << classifier, slot, pc, request, trace, stageArg, last >>

\* lines 39-40
CodecStrip ==
    /\ codec.pc = "strip"
    /\ codec' = [codec EXCEPT !.pc = "pad",
                              !.base64_string = StripPrefix(@),
                              !.stripped = StripPrefix(codec.base64_string)]
    /\ UNCHANGED main

\* lines 43-45
CodecPad ==
    /\ codec.pc = "pad"
    /\ codec' = [codec EXCEPT !.pc = "decode", !.base64_string = PadCorrect(@)]
    /\ UNCHANGED main

\* line 48, and lines 53-54 when it raises
CodecDecode ==
    /\ codec.pc = "decode"
    /\ LET d == b64decode(codec.base64_string)
       IN  codec' = [codec EXCEPT !.image_data = d,
                                  !.pc = IF d.ok THEN "verify" ELSE "return",
                                  !.ret = IF d.ok THEN @ ELSE DecodeFailure(d)]
    /\ UNCHANGED main

\* lines 49-52, and lines 53-54 when they raise
CodecVerify ==
    /\ codec.pc = "verify"
    /\ codec' = [codec EXCEPT !.pc = "return",
                              !.ret = IF ImageVerify(codec.image_data.bytes)
                                      THEN Valid("Valid image")
                                      ELSE Invalid("Invalid image data: UnidentifiedImageError")]
    /\ UNCHANGED main

NextCodec == CodecStrip \/ CodecPad \/ CodecDecode \/ CodecVerify

SpecCodec == InitCodec /\ [][NextCodec]_vars

\* ---------------------------------------------------------------- properties
InTrace(tr, e) == \E i \in 1..Len(tr) : tr[i] = e
LastPredict == last.route = "/predict"
LastHealth == last.route = "/health"
HasImageField(req) ==
    req.is_json /\ req.json.t = "dict" /\ "image" \in DOMAIN req.json.fields
Img(req) == req.json.fields.image
\* the string validate_image decodes
Normalized(img) == PadCorrect(StripPrefix(Chars(img)))
FailsDecode(img) == ~b64decode(Normalized(img)).ok
FailsVerify(img) ==
    b64decode(Normalized(img)).ok /\ ~ImageVerify(b64decode(Normalized(img)).bytes)
Empty(img) == ~Truthy(img)
Short(img) == img.t = "str" /\ PyLen(img) < MinImageLen
BadPayload(img) ==
    Empty(img) \/ Short(img) \/ (img.t = "str" /\ (FailsDecode(img) \/ FailsVerify(img)))
GoodPayload(img) ==
    img.t = "str" /\ PyLen(img) >= MinImageLen /\ ~FailsDecode(img) /\ ~FailsVerify(img)
\* the two classes over the inputs, decoded once
BadPayloads == {img \in Images : BadPayload(img)}
GoodPayloads == {img \in Images : GoodPayload(img)}
UndecodablePayloads ==
    {img \in StrImages : PyLen(img) >= MinImageLen /\ FailsDecode(img)}

\* C1: with the classifier available, a /predict request whose 'image' is
\* empty, shorter than 100 characters, fails base64 decoding or fails image
\* verification is answered 400 with success=false; decodeImage and
\* predict() are never called for it (no worker is ever staging or
\* predicting it), and validate_image is not called when it is empty or
\* too short.
C1_BadPayloadRejected ==
    /\ \A w \in Workers :
        pc[w] /= "idle" => Img(request[w]) \notin BadPayloads
    /\ (LastPredict /\ classifier = "loaded" /\ HasImageField(last.request)
            /\ Img(last.request) \in BadPayloads)
       => /\ last.response.status = 400
          /\ last.response.body.success = FALSE
          /\ ~InTrace(last.trace, "decodeImage")
          /\ ~InTrace(last.trace, "predict")
          /\ last.stageArg = Unset /\ last.readImage = Unset
          /\ (Empty(Img(last.request)) \/ Short(Img(last.request)))
                => ~InTrace(last.trace, "validate_image")

\* a payload of at least 100 characters that does not decode was validated
\* and answered 400
C1_Witness ==
    /\ LastPredict /\ classifier = "loaded" /\ HasImageField(last.request)
    /\ Img(last.request) \in UndecodablePayloads
    /\ InTrace(last.trace, "validate_image")
    /\ last.response.status = 400

\* C2: every envelope /predict returns has success; success=true carries
\* data; success=false carries error and neither data nor processed_image.
C2_EnvelopeShape ==
    LastPredict =>
        LET b == last.response.body IN
        /\ "success" \in DOMAIN b
        /\ b.success => "data" \in DOMAIN b
        /\ ~b.success => /\ "error" \in DOMAIN b
                         /\ "data" \notin DOMAIN b
                         /\ "processed_image" \notin DOMAIN b

\* an inference failure was answered with an error envelope
C2_Witness ==
    /\ LastPredict /\ last.raised = "inference"
    /\ ~last.response.body.success
    /\ "error" \in DOMAIN last.response.body

\* a request a client got wrong: no JSON body, a JSON body that is no
\* object, no 'image' field, or an 'image' that is empty, too short or not
\* a string
Malformed(req) ==
    \/ ~req.is_json
    \/ req.json.t /= "dict"
    \/ "image" \notin DOMAIN req.json.fields
    \/ Empty(Img(req))
    \/ Img(req).t /= "str"
    \/ PyLen(Img(req)) < MinImageLen

\* C3: with the classifier available, every malformed /predict request is
\* answered 400 with success=false, never 500.
C3_MalformedIs400 ==
    (LastPredict /\ classifier = "loaded" /\ Malformed(last.request))
    => (last.response.status = 400 /\ last.response.body.success = FALSE)

C4_State ==
    /\ LastHealth =>
        last.response.body.model_loaded = (classifier = "loaded")
    /\ classifier = "None" =>
        /\ slot = Unset
        /\ \A w \in Workers : pc[w] = "idle"
    /\ (LastPredict /\ classifier = "None") =>
        /\ last.response.status = 503
        /\ last.response.body.success = FALSE
        /\ last.trace = << >>
        /\ last.stageArg = Unset /\ last.readImage = Unset
    /\ (LastPredict /\ classifier = "loaded") => last.response.status /= 503

\* C4: classifier availability never changes; while unavailable every
\* /predict request is answered 503 with success=false before any body
\* inspection, validation, staging or predict(), and /health reports
\* model_loaded=false; while available /health reports model_loaded=true
\* and /predict never answers 503.
C4_AvailabilityFixed ==
    /\ [][classifier' = classifier]_vars
    /\ []C4_State

\* a well-formed request with a valid image was answered 503
C4_Witness ==
    /\ classifier = "None" /\ LastPredict
    /\ HasImageField(last.request) /\ Img(last.request) \in GoodPayloads
    /\ last.response.status = 503

\* C5: with the classifier available, a request whose 'image' is a string
\* of at least 100 characters that passes validate_image is never rejected
\* by validation, and unless staging or predict() raises it is answered 200
\* with success=true, data, timestamp and model_version "1.0.0".
C5_ValidImageSucceeds ==
    (LastPredict /\ classifier = "loaded" /\ HasImageField(last.request)
        /\ Img(last.request) \in GoodPayloads)
    => /\ last.raised \in {"none", "staging", "inference"}
       /\ last.raised = "none" =>
            /\ last.response.status = 200
            /\ last.response.body.success = TRUE
            /\ "data" \in DOMAIN last.response.body
            /\ "timestamp" \in DOMAIN last.response.body
            /\ "model_version" \in DOMAIN last.response.body
            /\ last.response.body.model_version = "1.0.0"

\* an image sent with a data-URL prefix and without its trailing padding
\* was answered 200
C5_Witness ==
    /\ LastPredict /\ last.response.status = 200
    /\ Img(last.request).dataUrl
    /\ Len(StripPrefix(Chars(Img(last.request)))) % 4 /= 0

C7_PaddingCorrection ==
    codec.pc \in {"decode", "verify", "return"} =>
        /\ \E k \in 0..3 :
            /\ codec.base64_string = codec.stripped \o Rep("=", k)
            /\ k = 0 <=> Len(codec.stripped) % 4 = 0
        /\ Len(codec.base64_string) % 4 = 0
        /\ codec.input.isEncoded =>
            /\ codec.base64_string = codec.input.encoded
            /\ codec.pc \in {"verify", "return"} =>
                /\ codec.image_data.ok
                /\ codec.image_data.bytes = codec.input.bytes

\* an encoding sent without its padding was padded again and decoded
C7_Witness ==
    /\ codec.pc = "return"
    /\ codec.input.isEncoded
    /\ Len(codec.stripped) % 4 /= 0
    /\ codec.base64_string /= codec.stripped
    /\ codec.image_data.ok

\* C8: the image predict() read for a request is the image that request
\* staged.
C8_ReadsOwnImage ==
    (LastPredict /\ last.readImage /= Unset) => last.readImage = last.stageArg

Stages == << "validate", "validate_image", "decodeImage", "predict", "normalize" >>
InOrder(tr) == Len(tr) <= Len(Stages) /\ tr = SubSeq(Stages, 1, Len(tr))

\* C9: the stages of a request run in the order validation, staging,
\* inference, normalization, each at most once; a request that fails in
\* validation is answered 400, one that fails in staging or inference 500,
\* one that passes every stage 200, and an unavailable classifier 503.
C9_StrictStages ==
    /\ \A w \in Workers : InOrder(trace[w])
    /\ LastPredict =>
        /\ last.trace = << "validate" >> \/ InOrder(last.trace)
        /\ last.response.status \in {200, 400, 500, 503}
        /\ last.response.status = 503 <=> classifier = "None"
        /\ (classifier = "loaded" /\ ~InTrace(last.trace, "decodeImage"))
              => last.response.status = 400
        /\ (InTrace(last.trace, "decodeImage") /\ ~InTrace(last.trace, "normalize"))
              => last.response.status = 500
        /\ InTrace(last.trace, "normalize") => last.response.status = 200

\* C10: what a request hands to the staging step is the string
\* validate_image decoded: the submitted string without its data-URL prefix
\* and with its padding corrected.
C10_StagedIsValidated ==
    \A w \in Workers :
        stageArg[w] /= Unset =>
            Chars(stageArg[w]) = Normalized(Img(request[w]))

====
